---- MODULE Spec2Model ----
(***************************************************************************)
(* ThreatZapper fleet manager: the device check-in handler and the device  *)
(* command queue, as state machines over the rows of the devices and       *)
(* device_commands tables, with the block_events and device_metrics rows   *)
(* a check-in appends.                                                     *)
(*                                                                         *)
(* Every awaited storage call of a handler is one atomic step; two         *)
(* check-ins in flight interleave between their storage calls.  A storage  *)
(* call whose error the handler inspects may fail (it then changes no      *)
(* row and the handler takes its error branch).  Device ids are MAC-like   *)
(* tokens (schema: "AABBCCDDEEFF"), so the or-filter of the pending query  *)
(* reads as its two alternatives.  Timestamps are ticks of one counter:    *)
(* every check-in and every command insert reads a fresh tick.             *)
(***************************************************************************)
EXTENDS Integers, Sequences, FiniteSets, TLC

\* ------------------------------------------------------------- bounds
MaxClock == 3
MaxCommands == 2
MaxInflight == 2
MaxResults == 1
MaxMinutes == 8
BulkExtra == 2
MaxDeliverClock == 4

\* ---------------------------------------------------------- constants
DrainLimit == 10
\* 5 * 60 * 1000 ms, interval '5 minutes': in ticks of one minute
OfflineAfter == 5

NULL == "NULL"
NoTime == 0
\* an absent number: an undefined numeric request field, a null numeric column
NoNumber == -1

DeviceIds == {"X", "Y"}
\* a device id no check-in ever reports
GhostId == "Z"
\* the empty string: a falsy, non-null value
Empty == ""

VALID_COMMANDS ==
  {"update_blocklist", "exec", "reboot", "update_firmware", "set_config", "file_download"}

CommandStatuses == {"pending", "sent", "acknowledged", "completed", "failed"}

\* JS truthiness of a string-or-null request field
Truthy(v) == v # NULL /\ v # Empty

\* v || dflt on a string-or-null request field
StrOr(v, dflt) == IF Truthy(v) THEN v ELSE dflt

\* v || dflt on a numeric request field: undefined and 0 are falsy
NumOr(v, dflt) == IF v = NoNumber \/ v = 0 THEN dflt ELSE v

\* data.metrics of a check-in: given is FALSE when the request carries none
NoMetrics == [given |-> FALSE, cpuLoad |-> NoNumber, tempCelsius |-> NoNumber]

Metrics(cpuLoad, tempCelsius) ==
  [given |-> TRUE, cpuLoad |-> cpuLoad, tempCelsius |-> tempCelsius]

\* the body of a check-in that reports nothing but its deviceId
BareData(deviceId) ==
  [deviceId |-> deviceId, wifiIp |-> NULL, mode |-> NULL, firmware |-> NULL,
   uptime |-> NoNumber, blockedInbound |-> NoNumber, blockedOutbound |-> NoNumber,
   wifiSsid |-> NULL, wifiSignal |-> NoNumber, macAddress |-> NULL,
   metrics |-> NoMetrics, deltaInbound |-> NoNumber, deltaOutbound |-> NoNumber]

\* a payload field is "absent" (undefined), "empty" (defined but falsy) or "set";
\* given is FALSE when the request carries no payload at all
Payload(given, url, script, path, key, value) ==
  [given |-> given, url |-> url, script |-> script, path |-> path,
   key |-> key, value |-> value]

EmptyPayload == Payload(TRUE, "absent", "absent", "absent", "absent", "absent")

\* data.payload || {}
PayloadOrEmpty(p) == IF p.given THEN p ELSE EmptyPayload

\* the switch on data.type: TRUE when the payload passes
PayloadAccepted(type, payload) ==
  CASE type \in {"update_blocklist", "update_firmware"} -> payload.url = "set"
    [] type = "exec" -> payload.script = "set"
    [] type = "file_download" -> payload.url = "set" /\ payload.path = "set"
    [] type = "set_config" -> payload.key = "set" /\ payload.value # "absent"
    [] OTHER -> TRUE

VARIABLES
  devices,          \* devices table, by device_id
  device_commands,  \* device_commands table, in insertion order
  block_events,     \* block_events table, in insertion order
  device_metrics,   \* device_metrics table, in insertion order
  inflight,         \* check-ins between their storage calls
  clock,            \* the last timestamp read
  lastResponse,     \* the last HTTP response sent
  returned,         \* history: every (command, device) a check-in response listed
  forced,           \* history: result reports applied to a command still pending
  reported,         \* history: the bodies of the last two check-ins that upserted each device
  dashboard         \* the fleet page: the devices it fetched and the ones it shows online

vars ==
  <<devices, device_commands, block_events, device_metrics, inflight, clock,
    lastResponse, returned, forced, reported, dashboard>>

\* the tables a check-in appends to
logs == <<block_events, device_metrics>>

NoDevice ==
  [exists |-> FALSE, wifi_ip |-> NULL, mode |-> NULL, firmware |-> NULL,
   uptime |-> 0, blocked_inbound |-> 0, blocked_outbound |-> 0,
   wifi_ssid |-> NULL, wifi_signal |-> NoNumber, mac_address |-> NULL,
   name |-> NULL, user_id |-> NULL,
   status |-> "none", last_seen |-> NoTime, created_at |-> NoTime]

\* history of the bodies a device was upserted with: the last one and the one before
NoReport == [last |-> BareData(NULL), previous |-> BareData(NULL)]

Reported(h, data) == [last |-> data, previous |-> h.last]

\* ------------------------------------------------- liveness at read time
\* lib: new Date(device.lastSeen) > new Date(Date.now() - 5 * 60 * 1000)
isDeviceOnline(device, now) == device.lastSeen > now - OfflineAfter

\* fleet page: device.status === "online" || now - lastSeen < 5 * 60 * 1000
isDeviceOnlineDashboard(device, now) ==
  device.status = "online" \/ now - device.lastSeen < OfflineAfter

\* a sweep that does not look at last_seen
mark_offline_devices_all(devs, now) ==
  [d \in DOMAIN devs |->
     IF devs[d].exists /\ devs[d].status # "offline"
     THEN [devs[d] EXCEPT !.status = "offline"]
     ELSE devs[d]]

\* a sweep that also takes the devices last seen exactly 5 minutes ago
mark_offline_devices_at_threshold(devs, now) ==
  [d \in DOMAIN devs |->
     IF devs[d].exists /\ devs[d].last_seen <= now - OfflineAfter
                       /\ devs[d].status # "offline"
     THEN [devs[d] EXCEPT !.status = "offline"]
     ELSE devs[d]]

\* update devices set status = 'offline'
\*   where last_seen < now() - interval '5 minutes' and status != 'offline'
mark_offline_devices(devs, now) ==
  [d \in DOMAIN devs |->
     IF devs[d].exists /\ devs[d].last_seen < now - OfflineAfter
                       /\ devs[d].status # "offline"
     THEN [devs[d] EXCEPT !.status = "offline"]
     ELSE devs[d]]

\* the devices of the fleet read in frontend format (the fields liveness reads)
TransformDevices(devs) ==
  [d \in DOMAIN devs |->
     [exists |-> devs[d].exists, status |-> devs[d].status,
      lastSeen |-> devs[d].last_seen]]

\* what the fleet page shows at time now from the devices it holds
Rendered(view, now) ==
  [devices |-> view,
   online |-> {d \in DOMAIN view : view[d].exists /\ isDeviceOnlineDashboard(view[d], now)},
   onlineLib |-> {d \in DOMAIN view : view[d].exists /\ isDeviceOnline(view[d], now)},
   at |-> now]

NoDashboard == Rendered(TransformDevices([d \in DeviceIds |-> NoDevice]), 0)

NoResponse == [op |-> "none", status |-> 0, dev |-> NULL, commands |-> <<>>, name |-> NULL]

Response(op, status, dev, commands) ==
  [op |-> op, status |-> status, dev |-> dev, commands |-> commands, name |-> NULL]

CommandIds == 1..Len(device_commands)

\* ------------------------------------------------- devices upsert
\* an upsert that never lowers a stored counter
UpsertDeviceMaxMerge(row, data, now) ==
  [exists |-> TRUE,
   wifi_ip |-> StrOr(data.wifiIp, NULL),
   mode |-> StrOr(data.mode, "bridge"),
   firmware |-> StrOr(data.firmware, "1.0.0"),
   uptime |-> NumOr(data.uptime, 0),
   blocked_inbound |-> IF NumOr(data.blockedInbound, 0) > row.blocked_inbound
                       THEN NumOr(data.blockedInbound, 0) ELSE row.blocked_inbound,
   blocked_outbound |-> IF NumOr(data.blockedOutbound, 0) > row.blocked_outbound
                        THEN NumOr(data.blockedOutbound, 0) ELSE row.blocked_outbound,
   wifi_ssid |-> StrOr(data.wifiSsid, NULL),
   wifi_signal |-> NumOr(data.wifiSignal, NoNumber),
   mac_address |-> StrOr(data.macAddress, NULL),
   name |-> row.name,
   user_id |-> row.user_id,
   status |-> "online",
   last_seen |-> now,
   created_at |-> IF row.exists THEN row.created_at ELSE now]

\* an upsert whose row carries name: null and user_id: null
UpsertDeviceUnnaming(row, data, now) ==
  [exists |-> TRUE,
   wifi_ip |-> StrOr(data.wifiIp, NULL),
   mode |-> StrOr(data.mode, "bridge"),
   firmware |-> StrOr(data.firmware, "1.0.0"),
   uptime |-> NumOr(data.uptime, 0),
   blocked_inbound |-> NumOr(data.blockedInbound, 0),
   blocked_outbound |-> NumOr(data.blockedOutbound, 0),
   wifi_ssid |-> StrOr(data.wifiSsid, NULL),
   wifi_signal |-> NumOr(data.wifiSignal, NoNumber),
   mac_address |-> StrOr(data.macAddress, NULL),
   name |-> NULL,
   user_id |-> NULL,
   status |-> "online",
   last_seen |-> now,
   created_at |-> IF row.exists THEN row.created_at ELSE now]

\* an upsert that keeps the stored network name of an existing row
UpsertDeviceMixing(row, data, now) ==
  [exists |-> TRUE,
   wifi_ip |-> StrOr(data.wifiIp, NULL),
   mode |-> StrOr(data.mode, "bridge"),
   firmware |-> StrOr(data.firmware, "1.0.0"),
   uptime |-> NumOr(data.uptime, 0),
   blocked_inbound |-> NumOr(data.blockedInbound, 0),
   blocked_outbound |-> NumOr(data.blockedOutbound, 0),
   wifi_ssid |-> IF row.exists THEN row.wifi_ssid ELSE StrOr(data.wifiSsid, NULL),
   wifi_signal |-> NumOr(data.wifiSignal, NoNumber),
   mac_address |-> StrOr(data.macAddress, NULL),
   name |-> row.name,
   user_id |-> row.user_id,
   status |-> "online",
   last_seen |-> now,
   created_at |-> IF row.exists THEN row.created_at ELSE now]

\* an upsert that writes created_at on every call
UpsertDeviceFresh(row, data, now) ==
  [exists |-> TRUE,
   wifi_ip |-> StrOr(data.wifiIp, NULL),
   mode |-> StrOr(data.mode, "bridge"),
   firmware |-> StrOr(data.firmware, "1.0.0"),
   uptime |-> NumOr(data.uptime, 0),
   blocked_inbound |-> NumOr(data.blockedInbound, 0),
   blocked_outbound |-> NumOr(data.blockedOutbound, 0),
   wifi_ssid |-> StrOr(data.wifiSsid, NULL),
   wifi_signal |-> NumOr(data.wifiSignal, NoNumber),
   mac_address |-> StrOr(data.macAddress, NULL),
   name |-> row.name,
   user_id |-> row.user_id,
   status |-> "online",
   last_seen |-> now,
   created_at |-> now]

\* upsert(..., {onConflict: "device_id"}): created_at is set on insert only; name
\* and user_id are not in the upsert row
UpsertDevice(row, data, now) ==
  [exists |-> TRUE,
   wifi_ip |-> StrOr(data.wifiIp, NULL),
   mode |-> StrOr(data.mode, "bridge"),
   firmware |-> StrOr(data.firmware, "1.0.0"),
   uptime |-> NumOr(data.uptime, 0),
   blocked_inbound |-> NumOr(data.blockedInbound, 0),
   blocked_outbound |-> NumOr(data.blockedOutbound, 0),
   wifi_ssid |-> StrOr(data.wifiSsid, NULL),
   wifi_signal |-> NumOr(data.wifiSignal, NoNumber),
   mac_address |-> StrOr(data.macAddress, NULL),
   name |-> row.name,
   user_id |-> row.user_id,
   status |-> "online",
   last_seen |-> now,
   created_at |-> IF row.exists THEN row.created_at ELSE now]

\* ------------------------------------------------- metrics and block events
\* device_metrics.insert({device_id, ..., cpu_load, temp_celsius})
MetricsRow(data, at) ==
  [device_id |-> data.deviceId, cpu_load |-> data.metrics.cpuLoad,
   temp_celsius |-> data.metrics.tempCelsius, created_at |-> at]

\* a condition that asks for both deltas
HasBothDeltas(data) ==
  NumOr(data.deltaInbound, 0) > 0 /\ NumOr(data.deltaOutbound, 0) > 0

\* const deltaIn = data.deltaInbound || 0; deltaIn > 0 || deltaOut > 0
HasDeltas(data) == NumOr(data.deltaInbound, 0) > 0 \/ NumOr(data.deltaOutbound, 0) > 0

\* block_events.insert({device_id, delta_*, total_*})
BlockEvent(data, at) ==
  [device_id |-> data.deviceId,
   delta_inbound |-> NumOr(data.deltaInbound, 0),
   delta_outbound |-> NumOr(data.deltaOutbound, 0),
   total_inbound |-> NumOr(data.blockedInbound, 0),
   total_outbound |-> NumOr(data.blockedOutbound, 0),
   created_at |-> at]

\* ------------------------------------------------- command queue
\* a command created as already sent
NewCommandSent(id, deviceId, type, payload, now) ==
  [id |-> id, device_id |-> deviceId, command_type |-> type, payload |-> payload,
   status |-> "sent", result |-> NULL, created_at |-> now,
   sent_at |-> now, completed_at |-> NoTime]

NewCommand(id, deviceId, type, payload, now) ==
  [id |-> id, device_id |-> deviceId, command_type |-> type, payload |-> payload,
   status |-> "pending", result |-> NULL, created_at |-> now,
   sent_at |-> NoTime, completed_at |-> NoTime]

\* the filter without its device alternative
EligibleAnyDevice(c, deviceId) == c.status = "pending"

\* .or(device_id.eq.<d>, device_id.is.null).eq("status", "pending")
Eligible(c, deviceId) ==
  /\ c.device_id = deviceId \/ c.device_id = NULL
  /\ c.status = "pending"

RECURSIVE OrderByCreatedAt(_, _)
\* .order("created_at", {ascending: true}) over the rows with ids in `ids`
OrderByCreatedAt(ids, cmds) ==
  IF ids = {} THEN <<>>
  ELSE LET first == CHOOSE i \in ids :
                      \A j \in ids : cmds[i].created_at <= cmds[j].created_at
       IN  <<first>> \o OrderByCreatedAt(ids \ {first}, cmds)

\* .limit(n)
Limit(s, n) == SubSeq(s, 1, IF Len(s) < n THEN Len(s) ELSE n)

\* the query ordered newest first
SelectPendingNewestFirst(deviceId, cmds) ==
  LET s == OrderByCreatedAt({i \in 1..Len(cmds) : Eligible(cmds[i], deviceId)}, cmds)
  IN  Limit([i \in 1..Len(s) |-> s[Len(s) + 1 - i]], DrainLimit)

\* the pending query of a check-in: the ids it selects, in order
SelectPending(deviceId, cmds) ==
  Limit(OrderByCreatedAt({i \in 1..Len(cmds) : Eligible(cmds[i], deviceId)}, cmds),
        DrainLimit)

SeqToSet(s) == {s[i] : i \in 1..Len(s)}

\* the update filtered by status instead of by id
MarkSentAllPending(cmds, ids, now) ==
  [i \in 1..Len(cmds) |->
     IF cmds[i].status = "pending"
     THEN [cmds[i] EXCEPT !.status = "sent", !.sent_at = now]
     ELSE cmds[i]]

\* update({status: "sent", sent_at: now}).in("id", commandIds)
MarkSent(cmds, ids, now) ==
  [i \in 1..Len(cmds) |->
     IF i \in ids THEN [cmds[i] EXCEPT !.status = "sent", !.sent_at = now]
     ELSE cmds[i]]

\* update({status, result: message || null, completed_at: now}).eq("id", id);
\* the status check constraint of device_commands rejects any other status
ApplyResult(cmds, id, status, message, now) ==
  IF status \in CommandStatuses
  THEN [i \in 1..Len(cmds) |->
          IF i = id
          THEN [cmds[i] EXCEPT !.status = status,
                               !.result = IF Truthy(message) THEN message ELSE NULL,
                               !.completed_at = now]
          ELSE cmds[i]]
  ELSE cmds

\* ------------------------------------------------- initial state
Init ==
  /\ devices = [d \in DeviceIds |-> NoDevice]
  /\ device_commands = <<>>
  /\ block_events = <<>>
  /\ device_metrics = <<>>
  /\ inflight = {}
  /\ clock = 0
  /\ lastResponse = NoResponse
  /\ returned = {}
  /\ forced = {}
  /\ reported = [d \in DeviceIds |-> NoReport]
  /\ dashboard = NoDashboard

\* ------------------------------------------------- check-in handler
\* the step after the block event: the results loop if commandResults has
\* entries, else the pending query
AfterEvent(nres) == IF nres > 0 THEN "results" ELSE "fetch"

\* the step after the metrics insert
AfterMetrics(data, nres) == IF HasDeltas(data) THEN "event" ELSE AfterEvent(nres)

\* the step after the device upsert
AfterUpsert(data, nres) ==
  IF data.metrics.given THEN "metrics" ELSE AfterMetrics(data, nres)

\* a check-in in flight, right after its device upsert
NewRequest(data, now, nres) ==
  [dev |-> data.deviceId, now |-> now, pc |-> AfterUpsert(data, nres), nres |-> nres,
   commands |-> <<>>, fetchOk |-> TRUE, data |-> data, metricsOk |-> TRUE,
   eventOk |-> TRUE, user |-> NULL, name |-> NULL]

\* the device upsert with its error logged and the check-in going on
CheckinUpsertIgnoringError(data, nres, upsertOk) ==
  /\ clock' = clock + 1
  /\ devices' = IF upsertOk
                THEN [devices EXCEPT ![data.deviceId] = UpsertDevice(@, data, clock')]
                ELSE devices
  /\ reported' = IF upsertOk THEN [reported EXCEPT ![data.deviceId] = Reported(@, data)] ELSE reported
  /\ inflight' = inflight \cup
       {[NewRequest(data, clock', nres) EXCEPT !.name = devices'[data.deviceId].name]}
  /\ UNCHANGED <<lastResponse, device_commands, logs, returned, forced, dashboard>>

\* now = new Date(), then the device upsert; 500 when the upsert fails
CheckinUpsert(data, nres, upsertOk) ==
  /\ clock' = clock + 1
  /\ IF upsertOk
     THEN /\ devices' = [devices EXCEPT ![data.deviceId] = UpsertDevice(@, data, clock')]
          /\ reported' = [reported EXCEPT ![data.deviceId] = Reported(@, data)]
          /\ inflight' = inflight \cup
               {[NewRequest(data, clock', nres) EXCEPT
                   !.name = devices'[data.deviceId].name]}
          /\ UNCHANGED lastResponse
     ELSE /\ lastResponse' = Response("checkin", 500, NULL, <<>>)
          /\ UNCHANGED <<devices, inflight, reported>>
  /\ UNCHANGED <<device_commands, logs, returned, forced, dashboard>>

\* POST check-in, up to and including the device upsert
CheckinBegin(keyOk, data, nres, upsertOk) ==
  IF ~keyOk
  THEN /\ lastResponse' = Response("checkin", 401, NULL, <<>>)
       /\ UNCHANGED <<devices, device_commands, logs, inflight, clock, returned, forced, reported, dashboard>>
  ELSE IF ~Truthy(data.deviceId)
  THEN /\ lastResponse' = Response("checkin", 400, NULL, <<>>)
       /\ UNCHANGED <<devices, device_commands, logs, inflight, clock, returned, forced, reported, dashboard>>
  ELSE CheckinUpsert(data, nres, upsertOk)

\* the metrics insert, with an error that ends the check-in with 500
InsertMetricsAborting(r, ok) ==
  /\ r \in inflight
  /\ r.pc = "metrics"
  /\ IF ok
     THEN /\ device_metrics' = Append(device_metrics, MetricsRow(r.data, clock))
          /\ inflight' = (inflight \ {r}) \cup
               {[r EXCEPT !.pc = AfterMetrics(r.data, r.nres)]}
          /\ UNCHANGED lastResponse
     ELSE /\ lastResponse' = Response("checkin", 500, NULL, <<>>)
          /\ inflight' = inflight \ {r}
          /\ UNCHANGED device_metrics
  /\ UNCHANGED <<devices, device_commands, block_events, clock, returned, forced, reported, dashboard>>

\* the metrics insert; its error is logged and the check-in goes on
InsertMetrics(r, ok) ==
  /\ r \in inflight
  /\ r.pc = "metrics"
  /\ device_metrics' =
       IF ok THEN Append(device_metrics, MetricsRow(r.data, clock)) ELSE device_metrics
  /\ inflight' = (inflight \ {r}) \cup
       {[r EXCEPT !.pc = AfterMetrics(r.data, r.nres), !.metricsOk = ok]}
  /\ UNCHANGED <<devices, device_commands, block_events, clock, lastResponse,
                 returned, forced, reported, dashboard>>

\* the block event insert; its error is logged and the check-in goes on
InsertEvent(r, ok) ==
  /\ r \in inflight
  /\ r.pc = "event"
  /\ block_events' =
       IF ok THEN Append(block_events, BlockEvent(r.data, clock)) ELSE block_events
  /\ inflight' = (inflight \ {r}) \cup {[r EXCEPT !.pc = AfterEvent(r.nres), !.eventOk = ok]}
  /\ UNCHANGED <<devices, device_commands, device_metrics, clock, lastResponse,
                 returned, forced, reported, dashboard>>

\* one iteration of the commandResults loop, on the entry {id, status, message}
\* (id 0: no id); the result of the update is not inspected, a failed update
\* changes nothing
IngestResult(r, id, status, message, updateOk) ==
  /\ r \in inflight
  /\ r.pc = "results"
  /\ LET applies == id # 0 /\ Truthy(status) /\ updateOk
         next == [r EXCEPT !.nres = @ - 1,
                           !.pc = IF r.nres = 1 THEN "fetch" ELSE "results"]
     IN  /\ device_commands' =
               IF applies THEN ApplyResult(device_commands, id, status, message, r.now)
               ELSE device_commands
         /\ forced' =
               IF /\ applies
                  /\ id \in CommandIds
                  /\ status \in CommandStatuses
                  /\ device_commands[id].status = "pending"
               THEN forced \cup {[cmd |-> id, status |-> status, message |-> message,
                                  at |-> r.now]}
               ELSE forced
         /\ inflight' = (inflight \ {r}) \cup {next}
  /\ UNCHANGED <<devices, logs, clock, lastResponse, returned, reported, dashboard>>

\* one iteration of the commandResults loop on a null entry: reading result.id
\* throws, and the handler's catch answers 500
ResultEntryThrows(r) ==
  /\ r \in inflight
  /\ r.pc = "results"
  /\ lastResponse' = Response("checkin", 500, NULL, <<>>)
  /\ inflight' = inflight \ {r}
  /\ UNCHANGED <<devices, device_commands, logs, clock, returned, forced, reported, dashboard>>

\* the pending-commands query; on an error the handler goes on with no commands
FetchPending(r, fetchOk) ==
  /\ r \in inflight
  /\ r.pc = "fetch"
  /\ inflight' = (inflight \ {r}) \cup
       {[r EXCEPT !.pc = "mark",
                  !.commands = IF fetchOk THEN SelectPending(r.dev, device_commands)
                               ELSE <<>>,
                  !.fetchOk = fetchOk]}
  /\ UNCHANGED <<devices, device_commands, logs, clock, lastResponse, returned, forced, reported, dashboard>>

\* mark the fetched commands as sent and answer 200 with them
MarkAndRespond(r) ==
  /\ r \in inflight
  /\ r.pc = "mark"
  /\ device_commands' =
       IF Len(r.commands) > 0
       THEN MarkSent(device_commands, SeqToSet(r.commands), r.now)
       ELSE device_commands
  /\ lastResponse' = [Response("checkin", 200, r.dev, r.commands) EXCEPT !.name = r.name]
  /\ returned' = returned \cup
       {[cmd |-> c, dev |-> r.dev, end |-> clock] : c \in SeqToSet(r.commands)}
  /\ inflight' = inflight \ {r}
  /\ UNCHANGED <<devices, logs, clock, forced, reported, dashboard>>

\* ------------------------------------------------- second check-in handler
\* the upsert row of the second handler carries no mac_address: the column keeps
\* its value
UpsertDeviceLegacy(row, data, now) ==
  [UpsertDevice(row, data, now) EXCEPT !.mac_address = row.mac_address]

\* POST of the second check-in handler, up to and including the device upsert, and
\* its 200 response when there is no block event to insert; the handler never
\* reads the authorization header, so keyOk has no effect
LegacyCheckin(keyOk, data, upsertOk) ==
  IF ~Truthy(data.deviceId)
  THEN /\ lastResponse' = Response("legacy_checkin", 400, NULL, <<>>)
       /\ UNCHANGED <<devices, device_commands, logs, inflight, clock, returned, forced, reported, dashboard>>
  ELSE /\ clock' = clock + 1
       /\ IF ~upsertOk
          THEN /\ lastResponse' = Response("legacy_checkin", 500, NULL, <<>>)
               /\ UNCHANGED <<devices, inflight, reported>>
          ELSE /\ devices' = [devices EXCEPT
                              ![data.deviceId] = UpsertDeviceLegacy(@, data, clock')]
               /\ reported' = [reported EXCEPT ![data.deviceId] = Reported(@, data)]
               /\ IF HasDeltas(data)
                  THEN /\ inflight' = inflight \cup
                            {[NewRequest(data, clock', 0) EXCEPT !.pc = "legacy_event"]}
                       /\ UNCHANGED lastResponse
                  ELSE /\ lastResponse' = Response("legacy_checkin", 200, data.deviceId, <<>>)
                       /\ UNCHANGED inflight
       /\ UNCHANGED <<device_commands, logs, returned, forced, dashboard>>

\* the block event insert of the second handler and its 200 response
LegacyInsertEvent(r, ok) ==
  /\ r \in inflight
  /\ r.pc = "legacy_event"
  /\ block_events' =
       IF ok THEN Append(block_events, BlockEvent(r.data, clock)) ELSE block_events
  /\ lastResponse' = Response("legacy_checkin", 200, r.dev, <<>>)
  /\ inflight' = inflight \ {r}
  /\ UNCHANGED <<devices, device_commands, device_metrics, clock, returned, forced, reported, dashboard>>

\* ------------------------------------------------- command creation
\* POST create command
CreateCommand(type, deviceIdIn, payloadIn, lookupOk, insertOk) ==
  LET deviceId == IF Truthy(deviceIdIn) THEN deviceIdIn ELSE NULL
      payload == PayloadOrEmpty(payloadIn)
      reject(status) ==
        /\ lastResponse' = Response("create", status, NULL, <<>>)
        /\ UNCHANGED <<devices, device_commands, logs, inflight, clock, returned, forced, reported, dashboard>>
  IN  IF ~Truthy(type) \/ type \notin VALID_COMMANDS
      THEN reject(400)
      ELSE IF /\ deviceId # NULL
              /\ ~(lookupOk /\ deviceId \in DeviceIds /\ devices[deviceId].exists)
      THEN reject(404)
      ELSE IF ~PayloadAccepted(type, payload)
      THEN reject(400)
      ELSE IF ~insertOk
      THEN reject(500)
      ELSE /\ clock' = clock + 1
           /\ device_commands' = Append(device_commands,
                NewCommand(Len(device_commands) + 1, deviceId, type, payload, clock'))
           /\ lastResponse' = Response("create", 200, deviceId, <<>>)
           /\ UNCHANGED <<devices, logs, inflight, returned, forced, reported, dashboard>>

\* ------------------------------------------------- specifications
\* what a device may report for a command
ResultIds == 0..MaxCommands
ResultStatuses == CommandStatuses \cup {"done", Empty}
ReportedStatuses == {"acknowledged", "completed", "failed"}
ResultMessages == {"ok", NULL}
CreateDeviceIds == DeviceIds \cup {NULL}

CanTick == clock < MaxClock
CanBegin == CanTick /\ Cardinality(inflight) < MaxInflight
CanCreate == CanTick /\ Len(device_commands) < MaxCommands

\* the protocol: check-ins of the devices and an administrator enqueueing
\* commands; devices report any of `statuses`; with `alone`, one check-in at a time
Protocol(statuses, alone) ==
  \/ /\ CanBegin
     /\ alone => inflight = {}
     /\ \E d \in DeviceIds, n \in 0..MaxResults : CheckinBegin(TRUE, BareData(d), n, TRUE)
  \/ \E r \in inflight, id \in ResultIds, s \in statuses, m \in ResultMessages :
       IngestResult(r, id, s, m, TRUE)
  \/ \E r \in inflight, ok \in BOOLEAN : FetchPending(r, ok)
  \/ \E r \in inflight : MarkAndRespond(r)
  \/ /\ CanCreate
     /\ \E d \in CreateDeviceIds : CreateCommand("reboot", d, EmptyPayload, TRUE, TRUE)

\* overlapping check-ins, any reported status
Next == Protocol(ResultStatuses, FALSE)

Spec == Init /\ [][Next]_vars

\* one check-in at a time
NextSeq == Protocol(ResultStatuses, TRUE)

SpecSeq == Init /\ [][NextSeq]_vars

\* overlapping check-ins of devices that report only the three result statuses
NextHonest == Protocol(ReportedStatuses, FALSE)

SpecHonest == Init /\ [][NextHonest]_vars

\* check-ins under faults, one at a time: any key, a missing deviceId, failing
\* storage calls, and every kind of commandResults entry
FaultData ==
  {BareData(d) : d \in {"X", NULL, Empty}} \cup
  {[BareData("X") EXCEPT !.metrics = Metrics(42, 55), !.blockedInbound = 100,
                         !.deltaInbound = 5]}

NextFaults ==
  \/ /\ CanBegin
     /\ inflight = {}
     /\ \E keyOk \in BOOLEAN, data \in FaultData, n \in 0..MaxResults,
           upsertOk \in BOOLEAN : CheckinBegin(keyOk, data, n, upsertOk)
  \/ \E r \in inflight, ok \in BOOLEAN : InsertMetrics(r, ok)
  \/ \E r \in inflight, ok \in BOOLEAN : InsertEvent(r, ok)
  \/ \E r \in inflight, id \in ResultIds, s \in ResultStatuses, m \in ResultMessages,
        ok \in BOOLEAN : IngestResult(r, id, s, m, ok)
  \/ \E r \in inflight : ResultEntryThrows(r)
  \/ \E r \in inflight, ok \in BOOLEAN : FetchPending(r, ok)
  \/ \E r \in inflight : MarkAndRespond(r)
  \/ /\ CanCreate
     /\ \E d \in CreateDeviceIds : CreateCommand("reboot", d, EmptyPayload, TRUE, TRUE)

SpecFaults == Init /\ [][NextFaults]_vars

\* what devices report: one device checking in, one request at a time, with every
\* optional field present or omitted, counters going up and down, and deltas
FullReport ==
  [deviceId |-> "X", wifiIp |-> "10.0.0.2", mode |-> "router", firmware |-> "2.1.0",
   uptime |-> 60, blockedInbound |-> 100, blockedOutbound |-> 20,
   wifiSsid |-> "home", wifiSignal |-> -60, macAddress |-> "aa:bb:cc:dd:ee:ff",
   metrics |-> NoMetrics, deltaInbound |-> NoNumber, deltaOutbound |-> NoNumber]

ReportData ==
  {FullReport, BareData("X"),
   [FullReport EXCEPT !.wifiIp = NULL], [FullReport EXCEPT !.mode = NULL],
   [FullReport EXCEPT !.firmware = NULL], [FullReport EXCEPT !.uptime = NoNumber],
   [FullReport EXCEPT !.wifiSsid = NULL], [FullReport EXCEPT !.wifiSignal = NoNumber],
   [FullReport EXCEPT !.macAddress = NULL],
   [FullReport EXCEPT !.blockedInbound = 40, !.blockedOutbound = 0],
   [FullReport EXCEPT !.metrics = Metrics(42, 55)],
   [BareData("X") EXCEPT !.deltaInbound = 5]} \cup
  {[FullReport EXCEPT !.deltaInbound = i, !.deltaOutbound = o] :
     i \in {0, 5}, o \in {0, 3}}

NextReport ==
  \/ /\ CanBegin
     /\ inflight = {}
     /\ \E data \in ReportData : CheckinBegin(TRUE, data, 0, TRUE)
  \/ \E r \in inflight : InsertMetrics(r, TRUE)
  \/ \E r \in inflight : InsertEvent(r, TRUE)
  \/ \E r \in inflight : FetchPending(r, TRUE)
  \/ \E r \in inflight : MarkAndRespond(r)

SpecReport == Init /\ [][NextReport]_vars

\* ------------------------------------------------- rename, registration, listing
\* String.prototype.trim on the names used here
Trim(name) == IF name = " lab " THEN "lab" ELSE IF name = "  " THEN Empty ELSE name

\* PATCH /api/devices/[deviceId]: name absent (NULL), not a string, or a string
RenameDevice(deviceId, name, isString, updateOk) ==
  LET answer(status) == lastResponse' = Response("rename", status, deviceId, <<>>)
      found == updateOk /\ deviceId \in DeviceIds /\ devices[deviceId].exists
  IN  /\ IF name # NULL /\ ~isString THEN answer(400) /\ UNCHANGED devices
         ELSE IF name = NULL THEN answer(400) /\ UNCHANGED devices
         ELSE IF ~found THEN answer(404) /\ UNCHANGED devices
         ELSE /\ devices' = [devices EXCEPT ![deviceId].name = StrOr(Trim(name), NULL)]
              /\ answer(200)
      /\ UNCHANGED <<device_commands, logs, inflight, clock, returned, forced,
                     reported, dashboard>>

\* name: `Device ${deviceId.slice(-6)}`
DefaultName(deviceId) == "Device " \o deviceId

\* devices.insert({device_id, user_id, name, status: "offline", mode: "router"});
\* last_seen and created_at take their default now()
RegisteredDevice(deviceId, userId, now) ==
  [NoDevice EXCEPT !.exists = TRUE, !.user_id = userId, !.name = DefaultName(deviceId),
                   !.status = "offline", !.mode = "router", !.uptime = 0,
                   !.last_seen = now, !.created_at = now]

\* POST /api/devices/register up to the lookup of the device: 401 without a valid
\* token, 400 without deviceId, 409 when the device has another owner
RegisterBegin(tokenOk, deviceId, userId, lookupOk) ==
  LET answer(status) ==
        /\ lastResponse' = Response("register", status, deviceId, <<>>)
        /\ UNCHANGED inflight
      existing == lookupOk /\ deviceId \in DeviceIds /\ devices[deviceId].exists
  IN  /\ IF ~tokenOk THEN answer(401)
         ELSE IF ~Truthy(deviceId) THEN answer(400)
         ELSE IF existing /\ Truthy(devices[deviceId].user_id)
                          /\ devices[deviceId].user_id # userId
         THEN answer(409)
         ELSE /\ inflight' = inflight \cup
                   {[NewRequest(BareData(deviceId), clock, 0) EXCEPT
                       !.pc = IF existing THEN "reg_update" ELSE "reg_insert",
                       !.user = userId]}
              /\ UNCHANGED lastResponse
      /\ UNCHANGED <<devices, device_commands, logs, clock, returned, forced,
                     reported, dashboard>>

\* devices.update({user_id}).eq("device_id", deviceId)
RegisterUpdate(r, ok) ==
  /\ r \in inflight
  /\ r.pc = "reg_update"
  /\ IF ok
     THEN /\ devices' = IF r.dev \in DeviceIds /\ devices[r.dev].exists
                        THEN [devices EXCEPT ![r.dev].user_id = r.user]
                        ELSE devices
          /\ lastResponse' = Response("register", 200, r.dev, <<>>)
     ELSE /\ lastResponse' = Response("register", 500, r.dev, <<>>)
          /\ UNCHANGED devices
  /\ inflight' = inflight \ {r}
  /\ UNCHANGED <<device_commands, logs, clock, returned, forced, reported, dashboard>>

\* the insert of a device that was not found; device_id is unique
RegisterInsert(r, ok) ==
  /\ r \in inflight
  /\ r.pc = "reg_insert"
  /\ IF ok /\ r.dev \in DeviceIds /\ ~devices[r.dev].exists
     THEN /\ devices' = [devices EXCEPT ![r.dev] = RegisteredDevice(r.dev, r.user, clock)]
          /\ lastResponse' = Response("register", 200, r.dev, <<>>)
     ELSE /\ lastResponse' = Response("register", 500, r.dev, <<>>)
          /\ UNCHANGED devices
  /\ inflight' = inflight \ {r}
  /\ UNCHANGED <<device_commands, logs, clock, returned, forced, reported, dashboard>>

\* GET /api/commands: the ids of the commands listed, newest first
ListCommands(deviceId, status, fetchOk) ==
  /\ lastResponse' =
       IF fetchOk
       THEN LET ids == {c \in 1..Len(device_commands) :
                          /\ device_commands[c].status # "deleted"
                          /\ Truthy(deviceId) => device_commands[c].device_id = deviceId
                          /\ Truthy(status) => device_commands[c].status = status}
                s == OrderByCreatedAt(ids, device_commands)
            IN  Response("list", 200, deviceId, [i \in 1..Len(s) |-> s[Len(s) + 1 - i]])
       ELSE Response("list", 500, deviceId, <<>>)
  /\ UNCHANGED <<devices, device_commands, logs, inflight, clock, returned, forced,
                 reported, dashboard>>

\* ------------------------------------------------- concurrent check-ins
\* POST check-in up to the geolocation lookup: `now` is taken before the lookup
\* is awaited, the upsert runs after it
CheckinReceive(keyOk, data, nres) ==
  IF ~keyOk
  THEN /\ lastResponse' = Response("checkin", 401, NULL, <<>>)
       /\ UNCHANGED <<devices, device_commands, logs, inflight, clock, returned,
                      forced, reported, dashboard>>
  ELSE IF ~Truthy(data.deviceId)
  THEN /\ lastResponse' = Response("checkin", 400, NULL, <<>>)
       /\ UNCHANGED <<devices, device_commands, logs, inflight, clock, returned,
                      forced, reported, dashboard>>
  ELSE /\ clock' = clock + 1
       /\ inflight' = inflight \cup {[NewRequest(data, clock', nres) EXCEPT !.pc = "upsert"]}
       /\ UNCHANGED <<devices, device_commands, logs, lastResponse, returned, forced,
                      reported, dashboard>>

\* the upsert of a check-in received earlier: one statement of the database
CheckinStore(r, upsertOk) ==
  /\ r \in inflight
  /\ r.pc = "upsert"
  /\ IF upsertOk
     THEN /\ devices' = [devices EXCEPT ![r.dev] = UpsertDevice(@, r.data, r.now)]
          /\ reported' = [reported EXCEPT ![r.dev] = Reported(@, r.data)]
          /\ inflight' = (inflight \ {r}) \cup
               {[r EXCEPT !.pc = AfterUpsert(r.data, r.nres),
                          !.name = devices'[r.dev].name]}
          /\ UNCHANGED lastResponse
     ELSE /\ lastResponse' = Response("checkin", 500, NULL, <<>>)
          /\ inflight' = inflight \ {r}
          /\ UNCHANGED <<devices, reported>>
  /\ UNCHANGED <<device_commands, logs, clock, returned, forced, dashboard>>

\* a second full report that differs from FullReport in every reported field
OtherReport ==
  [FullReport EXCEPT !.wifiIp = "10.0.0.3", !.mode = "bridge", !.firmware = "2.2.0",
                     !.uptime = 5, !.blockedInbound = 7, !.blockedOutbound = 3,
                     !.wifiSsid = "guest", !.wifiSignal = -70,
                     !.macAddress = "11:22:33:44:55:66"]

RaceData == {FullReport, OtherReport, [OtherReport EXCEPT !.deviceId = "Y"]}

\* check-ins of the same device overlapping in every way
NextRace ==
  \/ /\ CanBegin
     /\ \E data \in RaceData : CheckinReceive(TRUE, data, 0)
  \/ \E r \in inflight, ok \in BOOLEAN : CheckinStore(r, ok)
  \/ \E r \in inflight : FetchPending(r, TRUE)
  \/ \E r \in inflight : MarkAndRespond(r)

SpecRace == Init /\ [][NextRace]_vars

\* ------------------------------------------------- device deletion
\* a row of device_commands that was deleted (ids are positions: the position stays)
DeletedCommand(c) == [c EXCEPT !.status = "deleted"]

\* a delete that removes no command
DeleteCommandsOfNone(cmds, deviceId) == cmds

\* device_commands.delete().eq("device_id", deviceId)
DeleteCommandsOf(cmds, deviceId) ==
  [i \in 1..Len(cmds) |->
     IF cmds[i].device_id = deviceId THEN DeletedCommand(cmds[i]) ELSE cmds[i]]

\* block_events / device_metrics .delete().eq("device_id", deviceId)
DeleteRowsOf(rows, deviceId) ==
  LET other(row) == row.device_id # deviceId
  IN  SelectSeq(rows, other)

\* the request of a DELETE that found its device; metricsOk, eventOk and fetchOk
\* record whether the deletes of metrics, events and commands succeeded
DeleteRequest(deviceId, now) ==
  [NewRequest(BareData(deviceId), now, 0) EXCEPT !.pc = "del_events"]

\* DELETE /api/devices/[deviceId]: the lookup of the device
DeleteBegin(deviceId, findOk) ==
  IF ~(findOk /\ deviceId \in DeviceIds /\ devices[deviceId].exists)
  THEN /\ lastResponse' = Response("delete", 404, NULL, <<>>)
       /\ UNCHANGED <<devices, device_commands, logs, inflight, clock, returned,
                      forced, reported, dashboard>>
  ELSE /\ inflight' = inflight \cup {DeleteRequest(deviceId, clock)}
       /\ UNCHANGED <<devices, device_commands, logs, clock, lastResponse, returned,
                      forced, reported, dashboard>>

\* the three deletes of dependents; their results are not inspected
DeleteEvents(r, ok) ==
  /\ r \in inflight
  /\ r.pc = "del_events"
  /\ block_events' = IF ok THEN DeleteRowsOf(block_events, r.dev) ELSE block_events
  /\ inflight' = (inflight \ {r}) \cup {[r EXCEPT !.pc = "del_metrics", !.eventOk = ok]}
  /\ UNCHANGED <<devices, device_commands, device_metrics, clock, lastResponse,
                 returned, forced, reported, dashboard>>

DeleteMetrics(r, ok) ==
  /\ r \in inflight
  /\ r.pc = "del_metrics"
  /\ device_metrics' = IF ok THEN DeleteRowsOf(device_metrics, r.dev) ELSE device_metrics
  /\ inflight' = (inflight \ {r}) \cup {[r EXCEPT !.pc = "del_commands", !.metricsOk = ok]}
  /\ UNCHANGED <<devices, device_commands, block_events, clock, lastResponse,
                 returned, forced, reported, dashboard>>

DeleteCommands(r, ok) ==
  /\ r \in inflight
  /\ r.pc = "del_commands"
  /\ device_commands' =
       IF ok THEN DeleteCommandsOf(device_commands, r.dev) ELSE device_commands
  /\ inflight' = (inflight \ {r}) \cup {[r EXCEPT !.pc = "del_device", !.fetchOk = ok]}
  /\ UNCHANGED <<devices, logs, clock, lastResponse, returned, forced, reported,
                 dashboard>>

\* the delete of the device row; the foreign keys of block_events, device_metrics
\* and device_commands are "on delete cascade"
DeleteDevice(r, ok) ==
  /\ r \in inflight
  /\ r.pc = "del_device"
  /\ IF ok
     THEN /\ devices' = [devices EXCEPT ![r.dev] = NoDevice]
          /\ block_events' = DeleteRowsOf(block_events, r.dev)
          /\ device_metrics' = DeleteRowsOf(device_metrics, r.dev)
          /\ device_commands' = DeleteCommandsOf(device_commands, r.dev)
          /\ lastResponse' = Response("delete", 200, r.dev, <<>>)
     ELSE /\ lastResponse' = Response("delete", 500, r.dev, <<>>)
          /\ UNCHANGED <<devices, device_commands, logs>>
  /\ inflight' = inflight \ {r}
  /\ UNCHANGED <<clock, returned, forced, reported, dashboard>>

\* GET /api/devices/[deviceId]: 404 when the device row is not found (the response
\* records the id that was asked for)
GetDevice(deviceId, findOk) ==
  /\ lastResponse' =
       IF findOk /\ deviceId \in DeviceIds /\ devices[deviceId].exists
       THEN Response("get", 200, deviceId, <<>>)
       ELSE Response("get", 404, deviceId, <<>>)
  /\ UNCHANGED <<devices, device_commands, logs, inflight, clock, returned, forced,
                 reported, dashboard>>

\* devices that report metrics and deltas, commands for them, and deletions, one
\* request at a time
DeleteData ==
  {[BareData(d) EXCEPT !.metrics = Metrics(42, 55), !.blockedInbound = 100,
                       !.deltaInbound = 5] : d \in DeviceIds}

NextDelete ==
  \/ /\ CanBegin
     /\ inflight = {}
     /\ \E data \in DeleteData : CheckinBegin(TRUE, data, 0, TRUE)
  \/ \E r \in inflight : InsertMetrics(r, TRUE)
  \/ \E r \in inflight : InsertEvent(r, TRUE)
  \/ \E r \in inflight : FetchPending(r, TRUE)
  \/ \E r \in inflight : MarkAndRespond(r)
  \/ /\ CanCreate
     /\ inflight = {}
     /\ \E d \in CreateDeviceIds : CreateCommand("reboot", d, EmptyPayload, TRUE, TRUE)
  \/ /\ inflight = {}
     /\ \E d \in DeviceIds \cup {GhostId}, findOk \in BOOLEAN : DeleteBegin(d, findOk)
  \/ \E r \in inflight, ok \in BOOLEAN : DeleteEvents(r, ok)
  \/ \E r \in inflight, ok \in BOOLEAN : DeleteMetrics(r, ok)
  \/ \E r \in inflight, ok \in BOOLEAN : DeleteCommands(r, ok)
  \/ \E r \in inflight, ok \in BOOLEAN : DeleteDevice(r, ok)
  \/ /\ inflight = {}
     /\ \E d \in DeviceIds \cup {GhostId} : GetDevice(d, TRUE)

SpecDelete == Init /\ [][NextDelete]_vars

\* ------------------------------------------------- fleet read and fleet page
\* GET: the sweep (its result is not inspected), then the devices; the page stores
\* them (setDevices) and renders
GetDevices(sweepOk) ==
  /\ devices' = IF sweepOk THEN mark_offline_devices(devices, clock) ELSE devices
  /\ dashboard' = Rendered(TransformDevices(devices'), clock)
  /\ UNCHANGED <<device_commands, logs, inflight, clock, lastResponse, returned,
                 forced, reported>>

\* the page renders again from the devices it holds (filter change, failed fetch)
Render ==
  /\ dashboard' = Rendered(dashboard.devices, clock)
  /\ UNCHANGED <<devices, device_commands, logs, inflight, clock, lastResponse,
                 returned, forced, reported>>

\* a minute passes
Minute ==
  /\ clock' = clock + 1
  /\ UNCHANGED <<devices, device_commands, logs, inflight, lastResponse, returned,
                 forced, reported, dashboard>>

\* devices checking in, minutes passing, the fleet page reading and rendering
NextLiveness ==
  \/ /\ clock < MaxMinutes
     /\ inflight = {}
     /\ \E d \in DeviceIds : CheckinBegin(TRUE, BareData(d), 0, TRUE)
  \/ \E r \in inflight : FetchPending(r, TRUE)
  \/ \E r \in inflight : MarkAndRespond(r)
  \/ \E sweepOk \in BOOLEAN : GetDevices(sweepOk)
  \/ Render
  \/ /\ clock < MaxMinutes
     /\ Minute

SpecLiveness == Init /\ [][NextLiveness]_vars

UserIds == {"u1", "u2"}
RenameNames == {" lab ", "  ", NULL}

\* the administrator's and the owners' operations next to the check-ins of one
\* device, one request at a time
NextAdmin ==
  \/ /\ CanBegin
     /\ inflight = {}
     /\ \E n \in 0..MaxResults : CheckinBegin(TRUE, BareData("X"), n, TRUE)
  \/ \E r \in inflight, id \in ResultIds, st \in {"completed", "failed"} :
        IngestResult(r, id, st, NULL, TRUE)
  \/ \E r \in inflight : FetchPending(r, TRUE)
  \/ \E r \in inflight : MarkAndRespond(r)
  \/ /\ CanCreate
     /\ inflight = {}
     /\ \E d \in {"X", NULL} : CreateCommand("reboot", d, EmptyPayload, TRUE, TRUE)
  \/ /\ inflight = {}
     /\ \E st \in {"pending", NULL} : ListCommands("X", st, TRUE)
  \/ /\ inflight = {}
     /\ GetDevices(TRUE)
  \/ /\ inflight = {}
     /\ \E d \in {"X", GhostId}, name \in RenameNames : RenameDevice(d, name, TRUE, TRUE)
  \/ /\ inflight = {}
     /\ \E d \in {"X", NULL}, u \in UserIds : RegisterBegin(TRUE, d, u, TRUE)
  \/ \E r \in inflight : RegisterUpdate(r, TRUE)
  \/ \E r \in inflight : RegisterInsert(r, TRUE)

SpecAdmin == Init /\ [][NextAdmin]_vars

\* registrations of the devices by two users, overlapping in every way, next to
\* check-ins that run one at a time
NextRegister ==
  \/ /\ CanBegin
     /\ inflight = {}
     /\ \E d \in DeviceIds : CheckinBegin(TRUE, BareData(d), 0, TRUE)
  \/ \E r \in inflight : FetchPending(r, TRUE)
  \/ \E r \in inflight : MarkAndRespond(r)
  \/ /\ Cardinality(inflight) < MaxInflight
     /\ \A r \in inflight : r.pc \in {"reg_update", "reg_insert"}
     /\ \E d \in DeviceIds \cup {NULL}, u \in UserIds, tokenOk \in BOOLEAN,
           lookupOk \in BOOLEAN : RegisterBegin(tokenOk, d, u, lookupOk)
  \/ \E r \in inflight, ok \in BOOLEAN : RegisterUpdate(r, ok)
  \/ \E r \in inflight, ok \in BOOLEAN : RegisterInsert(r, ok)

SpecRegister == Init /\ [][NextRegister]_vars

\* delivery: X keeps checking in successfully, one request at a time; commands
\* are created and Y checks in only while a later check-in of X is still possible
CheckinOfX == inflight = {} /\ clock < MaxDeliverClock /\ CheckinBegin(TRUE, BareData("X"), 0, TRUE)

NextDeliver ==
  \/ CheckinOfX
  \/ /\ inflight = {}
     /\ clock + 1 < MaxDeliverClock
     /\ \E n \in 0..MaxResults : CheckinBegin(TRUE, BareData("Y"), n, TRUE)
  \/ \E r \in inflight, id \in ResultIds, st \in ReportedStatuses :
        IngestResult(r, id, st, NULL, TRUE)
  \/ \E r \in inflight : FetchPending(r, TRUE)
  \/ \E r \in inflight : MarkAndRespond(r)
  \/ /\ inflight = {}
     /\ clock + 1 < MaxDeliverClock
     /\ Len(device_commands) < MaxCommands
     /\ \E d \in {"X", NULL} : CreateCommand("reboot", d, EmptyPayload, TRUE, TRUE)

\* every request that began runs to its answer, and X checks in again
SpecDeliver ==
  /\ Init
  /\ [][NextDeliver]_vars
  /\ WF_vars(CheckinOfX)
  /\ WF_vars(\E r \in inflight, id \in ResultIds, st \in ReportedStatuses :
               IngestResult(r, id, st, NULL, TRUE))
  /\ WF_vars(\E r \in inflight : FetchPending(r, TRUE))
  /\ WF_vars(\E r \in inflight : MarkAndRespond(r))

\* devices checking in, minutes passing and fleet reads whose sweep succeeds
NextSweep ==
  \/ /\ clock < MaxMinutes
     /\ inflight = {}
     /\ \E d \in DeviceIds : CheckinBegin(TRUE, BareData(d), 0, TRUE)
  \/ \E r \in inflight : FetchPending(r, TRUE)
  \/ \E r \in inflight : MarkAndRespond(r)
  \/ GetDevices(TRUE)
  \/ /\ clock < MaxMinutes
     /\ Minute

SpecSweep == Init /\ [][NextSweep]_vars

\* the guards of the two check-in handlers: any key, with or without deviceId
GuardData ==
  {BareData(d) : d \in DeviceIds \cup {NULL, Empty}} \cup
  {[BareData(d) EXCEPT !.blockedInbound = 100, !.deltaInbound = 5] :
     d \in DeviceIds \cup {NULL}}

NextGuards ==
  \/ /\ CanBegin
     /\ \E keyOk \in BOOLEAN, data \in GuardData : CheckinBegin(keyOk, data, 0, TRUE)
  \/ /\ CanBegin
     /\ \E keyOk \in BOOLEAN, data \in GuardData, upsertOk \in BOOLEAN :
          LegacyCheckin(keyOk, data, upsertOk)
  \/ \E r \in inflight : InsertEvent(r, TRUE)
  \/ \E r \in inflight, ok \in BOOLEAN : LegacyInsertEvent(r, ok)
  \/ \E r \in inflight : FetchPending(r, TRUE)
  \/ \E r \in inflight : MarkAndRespond(r)
  \/ /\ CanCreate
     /\ \E d \in CreateDeviceIds : CreateCommand("reboot", d, EmptyPayload, TRUE, TRUE)

SpecGuards == Init /\ [][NextGuards]_vars

\* command creation alone, over every kind of request body
AllTypes == VALID_COMMANDS \cup {"bogus_type", Empty}
AllCreateDeviceIds == DeviceIds \cup {NULL, Empty, GhostId}
PayloadSamples ==
  { EmptyPayload,
    Payload(FALSE, "absent", "absent", "absent", "absent", "absent"),
    Payload(TRUE, "set", "absent", "absent", "absent", "absent"),
    Payload(TRUE, "absent", "set", "absent", "absent", "absent"),
    Payload(TRUE, "set", "absent", "set", "absent", "absent"),
    Payload(TRUE, "absent", "absent", "set", "absent", "absent"),
    Payload(TRUE, "absent", "absent", "absent", "set", "set"),
    Payload(TRUE, "absent", "absent", "absent", "set", "empty"),
    Payload(TRUE, "absent", "absent", "absent", "set", "absent") }

\* the store before any check-in, or after the first check-in of device X
InitCreate ==
  /\ \E known \in BOOLEAN :
       /\ devices = [d \in DeviceIds |->
            IF known /\ d = "X" THEN UpsertDevice(NoDevice, BareData(d), 1)
            ELSE NoDevice]
       /\ reported = [d \in DeviceIds |->
            IF known /\ d = "X" THEN Reported(NoReport, BareData(d)) ELSE NoReport]
       /\ dashboard = NoDashboard
       /\ clock = IF known THEN 1 ELSE 0
       /\ lastResponse = IF known THEN Response("checkin", 200, "X", <<>>) ELSE NoResponse
  /\ device_commands = <<>>
  /\ block_events = <<>>
  /\ device_metrics = <<>>
  /\ inflight = {}
  /\ returned = {}
  /\ forced = {}

NextCreate ==
  /\ CanCreate
  /\ \E t \in AllTypes, d \in AllCreateDeviceIds, p \in PayloadSamples,
        lookupOk \in BOOLEAN, insertOk \in BOOLEAN :
       CreateCommand(t, d, p, lookupOk, insertOk)

SpecCreate == InitCreate /\ [][NextCreate]_vars

\* a queue longer than one drain: both devices have checked in once, then more
\* than DrainLimit commands were enqueued; the targets repeat with period 3
BulkTargets == [0..2 -> DeviceIds \cup {NULL}]

InitBulk ==
  /\ devices = [d \in DeviceIds |->
       UpsertDevice(NoDevice, BareData(d), IF d = "X" THEN 1 ELSE 2)]
  /\ \E n \in (DrainLimit + 1)..(DrainLimit + BulkExtra), target \in BulkTargets :
       /\ device_commands =
            [i \in 1..n |-> NewCommand(i, target[i % 3], "reboot", EmptyPayload, 2 + i)]
       /\ clock = 2 + n
       /\ lastResponse = Response("create", 200, target[n % 3], <<>>)
  /\ block_events = <<>>
  /\ device_metrics = <<>>
  /\ inflight = {}
  /\ returned = {}
  /\ forced = {}
  /\ reported = [d \in DeviceIds |-> Reported(NoReport, BareData(d))]
  /\ dashboard = NoDashboard

CanBeginBulk ==
  /\ clock < Len(device_commands) + 2 + MaxClock
  /\ Cardinality(inflight) < MaxInflight

NextBulk ==
  \/ /\ CanBeginBulk
     /\ \E d \in DeviceIds : CheckinBegin(TRUE, BareData(d), 0, TRUE)
  \/ \E r \in inflight, ok \in BOOLEAN : FetchPending(r, ok)
  \/ \E r \in inflight : MarkAndRespond(r)

SpecBulk == InitBulk /\ [][NextBulk]_vars

\* ------------------------------------------------- steps, as seen between two states
\* check-in r sends its 200 response in this step
Responds(r) == r \in inflight /\ r.pc = "mark" /\ r \notin inflight'

\* check-in r runs its pending-commands query in this step and becomes r2
Fetches(r, r2) ==
  /\ r \in inflight /\ r.pc = "fetch"
  /\ r2 \in inflight' /\ r2.now = r.now /\ r2.pc = "mark"

\* check-in r applies one commandResults entry in this step
Ingests(r) == r \in inflight /\ r.pc = "results" /\ r \notin inflight'

\* the commands a check-in of deviceId may be given: its own and the broadcast ones
TargetedAt(c, deviceId) == device_commands[c].device_id \in {deviceId, NULL}

\* ------------------------------------------------- claims

\* C1: when two check-ins of one device overlap, no command is returned by both:
\* a response never lists a command that a response to the same device, sent after
\* this check-in began, has listed already.
C1_NoDoubleDrain ==
  [][\A r \in inflight : Responds(r) =>
       \A c \in SeqToSet(r.commands) :
         ~\E d \in returned : d.cmd = c /\ d.dev = r.dev /\ d.end >= r.now]_vars

\* C2: with one check-in at a time, no command is listed in two responses to the
\* same device.
C2_NoRedelivery ==
  \A d1, d2 \in returned : (d1.cmd = d2.cmd /\ d1.dev = d2.dev) => d1 = d2

C4_BroadcastReachesAll ==
  [][\A r \in inflight : (Responds(r) /\ r.fetchOk) =>
       \A c \in CommandIds :
         (/\ device_commands[c].device_id = NULL
          /\ \E d \in returned : d.cmd = c /\ d.dev # r.dev /\ d.end < r.now)
         => \/ c \in SeqToSet(r.commands)
            \/ \E d \in returned : d.cmd = c /\ d.dev = r.dev]_vars

\* C5: a check-in is given at most 10 commands, the oldest eligible pending ones:
\* the query returns min(10, eligible) commands, all eligible, ordered by created_at
\* whatever their target, and leaves out no eligible command older than one it
\* returns; the response lists exactly what the query returned.
C5_OldestTen ==
  [][/\ \A r \in inflight : \A r2 \in inflight' : Fetches(r, r2) =>
          LET got == r2.commands
              eligible == {c \in CommandIds :
                             /\ device_commands[c].status = "pending"
                             /\ device_commands[c].device_id \in {r.dev, NULL}}
              n == Cardinality(eligible)
          IN  /\ Len(got) <= 10
              /\ SeqToSet(got) \subseteq eligible
              /\ r2.fetchOk => Len(got) = IF n < 10 THEN n ELSE 10
              /\ \A i, j \in 1..Len(got) :
                   i < j => device_commands[got[i]].created_at
                              < device_commands[got[j]].created_at
              /\ \A e \in eligible \ SeqToSet(got) : \A c \in SeqToSet(got) :
                   device_commands[e].created_at > device_commands[c].created_at
     /\ \A r \in inflight : Responds(r) =>
          lastResponse'.commands = r.commands /\ Len(lastResponse'.commands) <= 10]_vars

\* C5 witness: a response listed exactly 10 commands, targeted and broadcast ones
\* among them, and a newer eligible command is still pending.
C5_Witness ==
  /\ lastResponse.op = "checkin" /\ lastResponse.status = 200
  /\ Len(lastResponse.commands) = 10
  /\ \E c \in SeqToSet(lastResponse.commands) : device_commands[c].device_id = NULL
  /\ \E c \in SeqToSet(lastResponse.commands) :
       device_commands[c].device_id = lastResponse.dev
  /\ \E e \in CommandIds :
       /\ e \notin SeqToSet(lastResponse.commands)
       /\ device_commands[e].status = "pending"
       /\ device_commands[e].device_id \in {lastResponse.dev, NULL}
       /\ \A c \in SeqToSet(lastResponse.commands) :
            device_commands[c].created_at < device_commands[e].created_at

C7_CreateIffValid ==
  [][LET RequiredFields(type) ==
           CASE type \in {"update_blocklist", "update_firmware"} -> {"url"}
             [] type = "exec" -> {"script"}
             [] type = "file_download" -> {"url", "path"}
             [] type = "set_config" -> {"key", "value"}
             [] OTHER -> {}
         Acceptable(type, deviceId, payload) ==
           /\ type \in VALID_COMMANDS
           /\ \A f \in RequiredFields(type) : payload.given /\ payload[f] # "absent"
           /\ deviceId # NULL => (deviceId \in DeviceIds /\ devices[deviceId].exists)
     IN  \A t \in AllTypes, d \in AllCreateDeviceIds, p \in PayloadSamples :
           CreateCommand(t, d, p, TRUE, TRUE) =>
             /\ (device_commands' # device_commands) <=> Acceptable(t, d, p)
             /\ lastResponse'.status \in {400, 404} =>
                  device_commands' = device_commands]_vars

\* C8: completed and failed are terminal: no step changes the status of a command
\* that is completed or failed.
C8_Terminal ==
  [][\A c \in CommandIds :
       device_commands[c].status \in {"completed", "failed"} =>
         device_commands'[c].status = device_commands[c].status]_vars

\* C9: a result report moves a command only to acknowledged, completed or failed:
\* every command a commandResults entry changes has one of these statuses afterwards.
C9_ResultStatuses ==
  [][\A r \in inflight : Ingests(r) =>
       \A c \in CommandIds :
         device_commands'[c] # device_commands[c] =>
           device_commands'[c].status \in {"acknowledged", "completed", "failed"}]_vars

\* C11: a check-in never fails because of its commandResults: once the device
\* upsert is done, no result entry changes the device row or ends the check-in,
\* and the check-in ends only by answering 200 with the commands its drain selected.
C11_ResultsNeverFail ==
  [][\A r \in inflight :
       /\ (r.pc = "results" /\ r \notin inflight') =>
            /\ devices' = devices
            /\ \E r2 \in inflight' : r2.now = r.now /\ r2.pc \in {"results", "fetch"}
       /\ (\A r2 \in inflight' : r2.now # r.now) =>
            /\ r.pc = "mark"
            /\ lastResponse' = Response("checkin", 200, r.dev, r.commands)]_vars

\* C12: a failing metrics insert or block event insert does not abort the check-in:
\* the failing step changes no device and no command and sends no response, the
\* check-in goes on with its next step (block event, results, drain), and when it
\* ends it has ingested its results and answers 200 with the drained commands.
C12_InsertFailureIsolated ==
  [][\A r \in inflight :
       /\ (r.pc \in {"metrics", "event"} /\ r \notin inflight') =>
            /\ devices' = devices
            /\ devices[r.dev].exists /\ devices[r.dev].last_seen >= r.now
            /\ device_commands' = device_commands
            /\ lastResponse' = lastResponse
            /\ \E r2 \in inflight' :
                 /\ r2.now = r.now
                 /\ r2.pc = IF r.pc = "metrics" /\ (r.data.deltaInbound > 0 \/
                                                     r.data.deltaOutbound > 0)
                            THEN "event"
                            ELSE IF r.nres > 0 THEN "results" ELSE "fetch"
       /\ (Responds(r) /\ (~r.metricsOk \/ ~r.eventOk)) =>
            /\ r.nres = 0
            /\ devices' = devices
            /\ lastResponse' = Response("checkin", 200, r.dev, r.commands)
            /\ \A c \in SeqToSet(r.commands) : device_commands'[c].status = "sent"]_vars

\* C12 witness: a check-in that reported metrics and deltas answered 200 with a
\* command although both of its inserts failed.
C12_Witness ==
  /\ inflight = {}
  /\ lastResponse.op = "checkin" /\ lastResponse.status = 200
  /\ Len(lastResponse.commands) > 0
  /\ devices[lastResponse.dev].blocked_inbound = 100
  /\ devices[lastResponse.dev].last_seen = clock
  /\ block_events = <<>>
  /\ device_metrics = <<>>

\* C13: when the device upsert of a check-in fails, the response is 500 and nothing
\* else happens: no device, metrics, block event or command row changes, and
\* nothing of the check-in stays in flight to run a later step.
C13_UpsertFailureAborts ==
  [][\A data \in FaultData, n \in 0..MaxResults :
       (Truthy(data.deviceId) /\ CheckinBegin(TRUE, data, n, FALSE)) =>
         /\ lastResponse' = Response("checkin", 500, NULL, <<>>)
         /\ devices' = devices
         /\ device_metrics' = device_metrics
         /\ block_events' = block_events
         /\ device_commands' = device_commands
         /\ inflight' = inflight]_vars

\* C13 witness: a check-in of a device never seen was answered 500 while a command
\* was pending; the device has no row, the command is still pending, and no
\* metrics or block event row exists.
C13_Witness ==
  /\ lastResponse.op = "checkin" /\ lastResponse.status = 500
  /\ inflight = {}
  /\ ~devices["X"].exists
  /\ Len(device_commands) > 0
  /\ \A c \in CommandIds : device_commands[c].status = "pending"
  /\ block_events = <<>>
  /\ device_metrics = <<>>

\* C14: a check-in without a valid API key is answered 401, whatever its body, and
\* one with a valid key and no deviceId is answered 400, by either check-in
\* handler; in both cases no device, block event, metrics or command row changes
\* and nothing of the request stays in flight.
C14_GuardsFirst ==
  [][\A data \in GuardData :
       LET rejected(op, status) ==
             /\ lastResponse' = Response(op, status, NULL, <<>>)
             /\ devices' = devices
             /\ block_events' = block_events
             /\ device_metrics' = device_metrics
             /\ device_commands' = device_commands
             /\ inflight' = inflight
       IN  /\ CheckinBegin(FALSE, data, 0, TRUE) => rejected("checkin", 401)
           /\ (~Truthy(data.deviceId) /\ CheckinBegin(TRUE, data, 0, TRUE))
                => rejected("checkin", 400)
           /\ \A upsertOk \in BOOLEAN :
                /\ LegacyCheckin(FALSE, data, upsertOk) => rejected("legacy_checkin", 401)
                /\ (~Truthy(data.deviceId) /\ LegacyCheckin(TRUE, data, upsertOk))
                     => rejected("legacy_checkin", 400)]_vars

C16_OmittedFieldsKept ==
  [][\A d \in DeviceIds :
       (devices[d].exists /\ devices'[d].last_seen # devices[d].last_seen) =>
         LET data == reported'[d].last
         IN  /\ (data.wifiIp = NULL) => devices'[d].wifi_ip = devices[d].wifi_ip
             /\ (data.mode = NULL) => devices'[d].mode = devices[d].mode
             /\ (data.firmware = NULL) => devices'[d].firmware = devices[d].firmware
             /\ (data.uptime = NoNumber) => devices'[d].uptime = devices[d].uptime
             /\ (data.wifiSsid = NULL) => devices'[d].wifi_ssid = devices[d].wifi_ssid
             /\ (data.wifiSignal = NoNumber) =>
                  devices'[d].wifi_signal = devices[d].wifi_signal
             /\ (data.macAddress = NULL) =>
                  devices'[d].mac_address = devices[d].mac_address]_vars

\* C17: once a check-in that reports blockedInbound = v (or blockedOutbound = v)
\* has upserted a device, the stored counter equals v until the next check-in of
\* the device, whether v is above or below the value stored before.
C17_CountersLastWriteWins ==
  \A d \in DeviceIds :
    devices[d].exists =>
      /\ (reported[d].last.blockedInbound # NoNumber) =>
           devices[d].blocked_inbound = reported[d].last.blockedInbound
      /\ (reported[d].last.blockedOutbound # NoNumber) =>
           devices[d].blocked_outbound = reported[d].last.blockedOutbound

\* a completed check-in that reported counters below the ones stored before it
C17_Witness ==
  /\ devices["X"].exists
  /\ reported["X"].previous.blockedInbound = 100
  /\ reported["X"].previous.blockedOutbound = 20
  /\ reported["X"].last.blockedInbound = 40
  /\ reported["X"].last.blockedOutbound = 0
  /\ devices["X"].blocked_inbound = 40
  /\ devices["X"].blocked_outbound = 0
  /\ inflight = {}
  /\ lastResponse.status = 200

C19_EventTotalCumulative ==
  [][\A r \in inflight :
       ( /\ r.pc = "event"
         /\ Len(block_events') > Len(block_events)
         /\ r.data.deltaInbound > 0
         /\ r.data.blockedInbound = NoNumber
         /\ reported[r.dev].previous.blockedInbound # NoNumber ) =>
         block_events'[Len(block_events')].total_inbound =
           reported[r.dev].previous.blockedInbound + r.data.deltaInbound]_vars

\* C20: for every device the fleet page holds, the page shows it online exactly
\* when the time of rendering minus its lastSeen is below 5 minutes, and so does
\* the library's isDeviceOnline, whatever the device's cached status.
C20_LivenessFromLastSeen ==
  \A d \in DeviceIds :
    dashboard.devices[d].exists =>
      /\ (d \in dashboard.online) <=>
           (dashboard.at - dashboard.devices[d].lastSeen < OfflineAfter)
      /\ (d \in dashboard.onlineLib) <=>
           (dashboard.at - dashboard.devices[d].lastSeen < OfflineAfter)

C22_DeleteRemovesAll ==
  [][/\ \A r \in inflight :
          (r.pc = "del_device" /\ r \notin inflight' /\ lastResponse'.status = 200) =>
            /\ ~devices'[r.dev].exists
            /\ \A i \in 1..Len(block_events') : block_events'[i].device_id # r.dev
            /\ \A i \in 1..Len(device_metrics') : device_metrics'[i].device_id # r.dev
            /\ \A c \in 1..Len(device_commands') :
                  device_commands'[c].device_id = r.dev =>
                    device_commands'[c].status = "deleted"
            /\ \A d \in DeviceIds \ {r.dev} : devices'[d] = devices[d]
            /\ \A c \in 1..Len(device_commands) :
                  device_commands[c].device_id # r.dev =>
                    device_commands'[c] = device_commands[c]
            /\ (r.eventOk /\ r.metricsOk /\ r.fetchOk) =>
                  UNCHANGED <<device_commands, logs>>
     /\ \A d \in DeviceIds :
          (devices[d].exists /\ ~devices'[d].exists) =>
            \E r \in inflight : r.pc = "del_device" /\ r.dev = d /\ r \notin inflight'
     /\ (lastResponse'.op = "get" /\ lastResponse' # lastResponse) =>
          (lastResponse'.status = 404 <=>
             ~(lastResponse'.dev \in DeviceIds /\ devices[lastResponse'.dev].exists))
     /\ (lastResponse'.op = "delete" /\ lastResponse'.status = 404
          /\ lastResponse' # lastResponse) =>
          UNCHANGED <<devices, device_commands, logs>>]_vars

\* a device that had an event, a metrics row and a command was deleted with 200
\* and a fetch of it answered 404, while the other device kept its rows
C22_Witness ==
  /\ lastResponse = Response("get", 404, "X", <<>>)
  /\ ~devices["X"].exists
  /\ reported["X"].last.deltaInbound = 5
  /\ \E c \in 1..Len(device_commands) :
        device_commands[c].device_id = "X" /\ device_commands[c].status = "deleted"
  /\ devices["Y"].exists
  /\ \E i \in 1..Len(block_events) : block_events[i].device_id = "Y"
  /\ \A i \in 1..Len(block_events) : block_events[i].device_id = "Y"
  /\ \E i \in 1..Len(device_metrics) : device_metrics[i].device_id = "Y"
  /\ inflight = {}

\* C23: however check-ins of one device overlap, every change of its record is
\* the upsert of one check-in in flight and leaves the record with the reported
\* fields of that check-in's body and its time as last_seen, all of them from the
\* same check-in; there is one record per device id (devices is keyed by it).
C23_WholeCheckinWins ==
  [][\A d \in DeviceIds :
       devices'[d] # devices[d] =>
         \E r \in inflight :
           /\ r.pc = "upsert" /\ r.dev = d
           /\ devices'[d].exists
           /\ devices'[d].wifi_ip = r.data.wifiIp
           /\ devices'[d].mode = r.data.mode
           /\ devices'[d].firmware = r.data.firmware
           /\ devices'[d].uptime = r.data.uptime
           /\ devices'[d].blocked_inbound = r.data.blockedInbound
           /\ devices'[d].blocked_outbound = r.data.blockedOutbound
           /\ devices'[d].wifi_ssid = r.data.wifiSsid
           /\ devices'[d].wifi_signal = r.data.wifiSignal
           /\ devices'[d].mac_address = r.data.macAddress
           /\ devices'[d].last_seen = r.now
           /\ devices'[d].status = "online"]_vars

\* two overlapping check-ins of X have both answered; the one received first was
\* stored last, and the record is the one of that check-in in every field
C23_Witness ==
  /\ clock = 2
  /\ inflight = {}
  /\ reported["X"].previous = OtherReport
  /\ reported["X"].last = FullReport
  /\ devices["X"].last_seen = 1
  /\ devices["X"].wifi_ip = "10.0.0.2"
  /\ devices["X"].wifi_ssid = "home"
  /\ devices["X"].blocked_inbound = 100
  /\ lastResponse.status = 200

C26_StatusOnlyByCheckin ==
  [][/\ Len(device_commands') >= Len(device_commands)
     /\ \A c \in 1..Len(device_commands') :
          IF c > Len(device_commands)
          THEN /\ device_commands'[c].status = "pending"
               /\ device_commands'[c].sent_at = NoTime
               /\ device_commands'[c].completed_at = NoTime
               /\ device_commands'[c].result = NULL
               /\ \A b \in 1..Len(device_commands) :
                     device_commands'[b] = device_commands[b]
          ELSE device_commands'[c].status # device_commands[c].status =>
                 \E r \in inflight : Ingests(r) \/ Responds(r)]_vars

\* a command is still pending after the fleet was read, the device was renamed
\* and registered to an owner, and the commands were listed
C26_Witness ==
  /\ Len(device_commands) > 0
  /\ device_commands[1].status = "pending"
  /\ devices["X"].name = "lab"
  /\ devices["X"].user_id = "u1"
  /\ dashboard.devices["X"].exists
  /\ lastResponse = Response("list", 200, "X", <<1>>)
  /\ inflight = {}

\* C27: no step changes the owner of a device that has one; a registration that
\* finds the device owned by another user answers 409; so of two registrations
\* of an unowned device by different users at most one binds the device.
C27_NeverRebound ==
  [][/\ \A d \in DeviceIds :
          (devices[d].exists /\ devices[d].user_id # NULL) =>
            devices'[d].user_id = devices[d].user_id
     /\ (lastResponse' # lastResponse /\ lastResponse'.op = "register"
          /\ lastResponse'.status = 409) =>
          /\ devices[lastResponse'.dev].user_id # NULL
          /\ UNCHANGED devices]_vars

\* C28: a step of a check-in of device X that ingests a result or marks drained
\* commands sent changes only commands targeted at X or broadcast.
C28_OnlyOwnCommands ==
  [][\A r \in inflight :
       (Ingests(r) \/ Responds(r)) =>
         \A c \in CommandIds :
           device_commands'[c] # device_commands[c] => TargetedAt(c, r.dev)]_vars

\* C29: a command that is pending and targeted at X is eventually returned in a
\* check-in response to X, when X keeps checking in successfully.
C29_EventuallyReturned ==
  \A c \in 1..MaxCommands :
    (c \in CommandIds /\ device_commands[c].device_id = "X"
                      /\ device_commands[c].status = "pending")
      ~> (\E e \in returned : e.cmd = c /\ e.dev = "X")

\* C30: a step of a check-in leaves the name and the owner of every existing
\* device as they were, and the name in the check-in's response is the stored name,
\* the one set by the last rename or registration.
C30_CheckinKeepsNameAndOwner ==
  [][/\ \A r \in inflight' \ inflight :
          (clock' # clock /\ r.pc \in {"metrics", "event", "results", "fetch"}) =>
            /\ \A d \in DeviceIds :
                 devices[d].exists =>
                   /\ devices'[d].name = devices[d].name
                   /\ devices'[d].user_id = devices[d].user_id
            /\ devices[r.dev].exists => r.name = devices[r.dev].name
     /\ \A r \in inflight :
          (r.pc \in {"metrics", "event", "results", "fetch", "mark"} /\ r \notin inflight') =>
            /\ \A d \in DeviceIds :
                 /\ devices'[d].name = devices[d].name
                 /\ devices'[d].user_id = devices[d].user_id
            /\ Responds(r) =>
                 /\ lastResponse'.name = devices[r.dev].name
                 /\ lastResponse'.dev = r.dev]_vars

\* a check-in of X, renamed and registered before, was answered with its name
C30_Witness ==
  /\ lastResponse.op = "checkin"
  /\ lastResponse.status = 200
  /\ lastResponse.name = "lab"
  /\ devices["X"].name = "lab"
  /\ devices["X"].user_id = "u1"
  /\ devices["X"].last_seen > devices["X"].created_at

\* C10: a result reported for a command that was still pending is a forced
\* transition: when the reporting check-in answers, the command has the reported
\* status and message and a completed_at, and no response lists the command afterwards.
C10_ForcedTransition ==
  [][\A r \in inflight : Responds(r) =>
       /\ \A f \in forced : f.at = r.now =>
            /\ device_commands'[f.cmd].status = f.status
            /\ device_commands'[f.cmd].result = f.message
            /\ device_commands'[f.cmd].completed_at # NoTime
       /\ \A f \in forced : f.cmd \notin SeqToSet(r.commands)]_vars

====
